---- MODULE Spec2Model ----
(***************************************************************************)
(* TrainingParam (l2rpn_baselines/utils/TrainingParam.py): the container   *)
(* of training hyper-parameters, its two derived coefficients, the epsilon *)
(* schedule, the episode-length schedule, the training cadence and the     *)
(* dictionary / json (de)serialisation.                                    *)
(*                                                                         *)
(* Python values are records tagged with their type.  A float is the real  *)
(* number it denotes, kept exactly: a rational n/d, the logarithm of a     *)
(* rational, c * q^e or c * exp(e) with rational c, q, e, or one of the    *)
(* IEEE specials.  Two places depend on IEEE rounding and are modelled     *)
(* with it:                                                                *)
(*   - int(nb_success * (1.0 / update_nb_iter)) is computed with the       *)
(*     correctly rounded binary64 quotient and product (mul_recip_int);    *)
(*   - the result of the log/exp chain of get_next_epsilon carries the     *)
(*     sign r of its deviation from the exact value, which the library     *)
(*     decides: -1, 0 or 1, the same for the same call on the same object. *)
(***************************************************************************)
EXTENDS Integers, Sequences, FiniteSets, TLC

VARIABLES cfg, op, res, err, files

vars == <<cfg, op, res, err, files>>

-----------------------------------------------------------------------------
(* Python values *)

Abs(x) == IF x < 0 THEN -x ELSE x

Sign(x) == IF x < 0 THEN -1 ELSE IF x = 0 THEN 0 ELSE 1

RECURSIVE Gcd(_, _)
Gcd(a, b) == IF b = 0 THEN a ELSE Gcd(b, a % b)

NoneVal == [t |-> "None"]

IntVal(n) == [t |-> "int", v |-> n]

\* the float denoting the rational n/d (d # 0), in lowest terms
FloatVal(n, d) ==
  LET g == Gcd(Abs(n), Abs(d))
      s == IF d < 0 THEN -1 ELSE 1
  IN [t |-> "float", k |-> "rat", n |-> (s * n) \div g, d |-> (s * d) \div g]

NaN == [t |-> "float", k |-> "nan"]

\* s = 1: +inf, s = -1: -inf
Inf(s) == [t |-> "float", k |-> "inf", s |-> s]

\* the float denoting ln(n/d), n/d > 0 and n/d # 1
LnVal(n, d) == [t |-> "float", k |-> "ln", n |-> n, d |-> d]

IsNone(v) == v.t = "None"

IsInt(v) == v.t = "int"

IsRat(v) == v.t = "float" /\ v.k = "rat"

\* a finite int or float whose value is a known rational
IsNumber(v) == IsInt(v) \/ IsRat(v)

Num(v) == IF IsInt(v) THEN v.v ELSE v.n

Den(v) == IF IsInt(v) THEN 1 ELSE v.d

\* float(v) of a number
float(v) == FloatVal(Num(v), Den(v))

\* int(v) of a number: truncation toward zero
int(v) ==
  LET n == Num(v)
      d == Den(v)
  IN IntVal(IF n >= 0 THEN n \div d ELSE -((-n) \div d))

\* a > b on numbers
PyGt(a, b) == Num(a) * Den(b) > Num(b) * Den(a)

\* a == b in Python: numbers by value whatever their type, None with None,
\* nan with nothing
PyEq(a, b) ==
  IF IsNumber(a) /\ IsNumber(b) THEN Num(a) * Den(b) = Num(b) * Den(a)
  ELSE IF a.t = "float" /\ a.k = "nan" THEN FALSE
  ELSE a = b

\* a / b on numbers, b # 0
TrueDiv(a, b) == FloatVal(Num(a) * Den(b), Den(a) * Num(b))

\* a % b on ints, b # 0: the result has the sign of b
PyMod(a, b) ==
  IF b > 0 THEN a % b
  ELSE LET m == (-a) % (-b) IN -m

\* np.log(x) of a float x: -inf at 0 and nan below it (numpy warns, it does not
\* raise)
np_log(x) ==
  IF x.n < 0 THEN NaN
  ELSE IF x.n = 0 THEN Inf(-1)
  ELSE IF x.n = x.d THEN FloatVal(0, 1)
  ELSE LnVal(x.n, x.d)

Ok(v) == [err |-> "none", val |-> v]

Raise(e) == [err |-> e, val |-> NoneVal]

-----------------------------------------------------------------------------
(* class TrainingParam *)

\* TrainingParam._int_attr
_int_attr ==
  {"buffer_size", "minibatch_size", "step_for_final_epsilon", "min_observation",
   "last_step", "num_frames", "update_freq", "min_iter", "max_iter",
   "update_tensorboard_freq", "save_model_each", "update_nb_iter_",
   "step_increase_nb_iter"}

\* TrainingParam._float_attr
_float_attr ==
  {"final_epsilon", "initial_epsilon", "lr", "lr_decay_steps", "lr_decay_rate",
   "discount_factor", "tau", "oversampling_rate", "max_global_norm_grad",
   "max_value_grad", "max_loss"}

\* the defaults of __init__'s parameters
DefaultArgs ==
  [buffer_size |-> IntVal(40000),
   minibatch_size |-> IntVal(64),
   step_for_final_epsilon |-> IntVal(100000),
   min_observation |-> IntVal(5000),
   final_epsilon |-> FloatVal(1, 2016),
   initial_epsilon |-> FloatVal(2, 5),
   lr |-> FloatVal(1, 10000),
   lr_decay_steps |-> IntVal(10000),
   lr_decay_rate |-> FloatVal(999, 1000),
   num_frames |-> IntVal(1),
   discount_factor |-> FloatVal(99, 100),
   tau |-> FloatVal(1, 10),
   update_freq |-> IntVal(256),
   min_iter |-> IntVal(50),
   max_iter |-> IntVal(8064),
   update_nb_iter |-> IntVal(10),
   step_increase_nb_iter |-> IntVal(0),
   update_tensorboard_freq |-> IntVal(1000),
   save_model_each |-> IntVal(10000),
   random_sample_datetime_start |-> NoneVal,
   oversampling_rate |-> NoneVal,
   max_global_norm_grad |-> NoneVal,
   max_value_grad |-> NoneVal,
   max_loss |-> FloatVal(1000, 1)]

\* the parameters __init__ passes to float(), int() or compares with 0: None
\* there is a TypeError
NumericArgs ==
  {"final_epsilon", "initial_epsilon", "step_for_final_epsilon", "lr_decay_steps",
   "lr_decay_rate", "num_frames", "discount_factor", "tau", "update_nb_iter"}

\* the value of _exp_facto for the object's initial_epsilon and final_epsilon
\* (the same lines in __init__ and in from_dict)
exp_facto(c) ==
  IF IsNone(c["final_epsilon"]) THEN Raise("TypeError")
  ELSE IF PyGt(c["final_epsilon"], IntVal(0))
  THEN IF IsNone(c["initial_epsilon"]) THEN Raise("TypeError")
       ELSE Ok(np_log(TrueDiv(c["initial_epsilon"], c["final_epsilon"])))
  ELSE Ok(IntVal(1))

\* the value of _1_update_nb_iter for update_nb_iter_ = n (the same lines in
\* __init__ and in update_nb_iter)
inv_update_nb_iter(n) ==
  IF IsNone(n) THEN Raise("TypeError")
  ELSE IF PyGt(n, IntVal(0)) THEN Ok(TrueDiv(FloatVal(1, 1), n))
  ELSE Ok(FloatVal(1, 1))

\* TrainingParam(**a): [err, cfg]
TrainingParam(a) ==
  IF \E k \in NumericArgs : IsNone(a[k]) THEN [err |-> "TypeError", cfg |-> NoneVal]
  ELSE
    LET c0 ==
          [k \in _int_attr \cup _float_attr \cup
                 {"random_sample_datetime_start", "_exp_facto", "_1_update_nb_iter",
                  "max_iter_fun"} |->
             CASE k = "random_sample_datetime_start" -> a.random_sample_datetime_start
               [] k = "buffer_size" -> a.buffer_size
               [] k = "minibatch_size" -> a.minibatch_size
               [] k = "min_observation" -> a.min_observation
               [] k = "final_epsilon" -> float(a.final_epsilon)
               [] k = "initial_epsilon" -> float(a.initial_epsilon)
               [] k = "step_for_final_epsilon" -> float(a.step_for_final_epsilon)
               [] k = "lr" -> a.lr
               [] k = "lr_decay_steps" -> float(a.lr_decay_steps)
               [] k = "lr_decay_rate" -> float(a.lr_decay_rate)
               [] k = "max_global_norm_grad" -> a.max_global_norm_grad
               [] k = "max_value_grad" -> a.max_value_grad
               [] k = "max_loss" -> a.max_loss
               [] k = "last_step" -> IntVal(0)
               [] k = "num_frames" -> int(a.num_frames)
               [] k = "discount_factor" -> float(a.discount_factor)
               [] k = "tau" -> float(a.tau)
               [] k = "update_freq" -> a.update_freq
               [] k = "min_iter" -> a.min_iter
               [] k = "max_iter" -> a.max_iter
               [] k = "update_nb_iter_" -> a.update_nb_iter
               [] k = "step_increase_nb_iter" ->
                    IF IsNone(a.step_increase_nb_iter) THEN IntVal(0)
                    ELSE a.step_increase_nb_iter
               [] k = "oversampling_rate" ->
                    IF ~IsNone(a.oversampling_rate) THEN float(a.oversampling_rate)
                    ELSE NoneVal
               [] k = "update_tensorboard_freq" -> a.update_tensorboard_freq
               [] k = "save_model_each" -> a.save_model_each
               [] k = "max_iter_fun" -> [t |-> "method", name |-> "default_max_iter_fun"]
               [] OTHER -> NoneVal]
    IN [err |-> "none",
        cfg |-> [c0 EXCEPT !["_exp_facto"] = exp_facto(c0).val,
                           !["_1_update_nb_iter"] =
                              inv_update_nb_iter(c0["update_nb_iter_"]).val]]

\* update_nb_iter that stores n and leaves _1_update_nb_iter as it was
update_nb_iter_stale(c, n) ==
  [err |-> "none", cfg |-> [c EXCEPT !["update_nb_iter_"] = n]]

\* self.update_nb_iter(n): [err, cfg]; the assignment precedes the comparison
update_nb_iter(c, n) ==
  LET c1 == [c EXCEPT !["update_nb_iter_"] = n]
      r == inv_update_nb_iter(n)
  IN IF r.err # "none" THEN [err |-> r.err, cfg |-> c1]
     ELSE [err |-> "none", cfg |-> [c1 EXCEPT !["_1_update_nb_iter"] = r.val]]

\* self.tell_step(current_step)
tell_step(c, current_step) == [c EXCEPT !["last_step"] = current_step]

-----------------------------------------------------------------------------
(* get_next_epsilon *)

\* the outcomes of the rounding of a log/exp chain: the computed float is below,
\* at or above the float of the exact value
Roundings == {-1, 0, 1}

\* the float c * q^e, computed with deviation r; c, q, e floats with rational
\* values, c > 0, q > 0, q # 1, e # 0.  An exact c * q^(-1) is the float c / q.
PowVal(c, q, e, r) ==
  IF r = 0 /\ e.n = -1 /\ e.d = 1 THEN TrueDiv(c, q)
  ELSE [t |-> "float", k |-> "pow", c |-> c, q |-> q, e |-> e, r |-> r]

\* the float c * exp(e), computed with deviation r; c # 0, e # 0
ExpVal(c, e, r) == [t |-> "float", k |-> "exp", c |-> c, e |-> e, r |-> r]

\* decay with the sign of the exponent lost: initial_epsilon * np.exp(ratio * ef)
decay_growing(initial_epsilon, ratio, ef, r) ==
  LET c == float(initial_epsilon)
      x == FloatVal(Num(ratio), Den(ratio))
  IN IF IsNumber(ef)
     THEN LET p == FloatVal(x.n * Num(ef), x.d * Den(ef))
          IN IF p.n = 0 \/ c.n = 0 THEN c ELSE ExpVal(c, p, r)
     ELSE IF ef.k = "ln"
     THEN IF x.n = 0 \/ c.n = 0 THEN c ELSE PowVal(c, FloatVal(ef.n, ef.d), x, r)
     ELSE NaN

\* initial_epsilon * np.exp(- ratio * _exp_facto) for numbers initial_epsilon and
\* ratio; exp(0) is 1.0 and x * 1.0 is x, exactly
decay(initial_epsilon, ratio, ef, r) ==
  LET c == float(initial_epsilon)
      x == FloatVal(-Num(ratio), Den(ratio))
  IN IF IsNumber(ef)
     THEN LET p == FloatVal(x.n * Num(ef), x.d * Den(ef))
          IN IF p.n = 0 THEN c
             ELSE IF c.n = 0 THEN c
             ELSE ExpVal(c, p, r)
     ELSE IF ef.k = "ln"
     THEN IF x.n = 0 THEN c
          ELSE IF c.n = 0 THEN c
          ELSE PowVal(c, FloatVal(ef.n, ef.d), x, r)
     ELSE IF ef.k = "inf"
     THEN \* x * (+-inf) is nan at x = 0, else +-inf; exp of it is inf or 0.0
          IF x.n = 0 THEN NaN
          ELSE IF Sign(x.n) * ef.s > 0
               THEN (IF c.n = 0 THEN NaN ELSE Inf(Sign(c.n)))
               ELSE FloatVal(0, 1)
     ELSE NaN

\* get_next_epsilon without its constant branch: the curve at every step
get_next_epsilon_curve_only(c, current_step, r) ==
  LET c1 == [c EXCEPT !["last_step"] = current_step]
      S == c["step_for_final_epsilon"]
  IN IF IsNone(S) THEN [err |-> "TypeError", cfg |-> c1, ret |-> NoneVal]
     ELSE IF Num(S) = 0
     THEN [err |-> "ZeroDivisionError", cfg |-> c1, ret |-> NoneVal]
     ELSE IF IsNone(c["initial_epsilon"])
     THEN [err |-> "TypeError", cfg |-> c1, ret |-> NoneVal]
     ELSE [err |-> "none", cfg |-> c1,
           ret |-> decay(c["initial_epsilon"], TrueDiv(current_step, S),
                         c["_exp_facto"], r)]

\* get_next_epsilon with the curve started at final_epsilon
get_next_epsilon_from_final(c, current_step, r) ==
  LET c1 == [c EXCEPT !["last_step"] = current_step]
      S == c["step_for_final_epsilon"]
  IN IF IsNone(S) THEN [err |-> "TypeError", cfg |-> c1, ret |-> NoneVal]
     ELSE IF PyGt(current_step, S)
     THEN [err |-> "none", cfg |-> c1, ret |-> c["final_epsilon"]]
     ELSE IF Num(S) = 0
     THEN [err |-> "ZeroDivisionError", cfg |-> c1, ret |-> NoneVal]
     ELSE [err |-> "none", cfg |-> c1,
           ret |-> decay(c["final_epsilon"], TrueDiv(current_step, S),
                         c["_exp_facto"], r)]

\* self.get_next_epsilon(current_step): [err, cfg, ret]; last_step is assigned
\* first, whatever follows
get_next_epsilon(c, current_step, r) ==
  LET c1 == [c EXCEPT !["last_step"] = current_step]
      S == c["step_for_final_epsilon"]
  IN IF IsNone(S) THEN [err |-> "TypeError", cfg |-> c1, ret |-> NoneVal]
     ELSE IF PyGt(current_step, S)
     THEN [err |-> "none", cfg |-> c1, ret |-> c["final_epsilon"]]
     ELSE IF Num(S) = 0
     THEN [err |-> "ZeroDivisionError", cfg |-> c1, ret |-> NoneVal]
     ELSE IF IsNone(c["initial_epsilon"])
     THEN [err |-> "TypeError", cfg |-> c1, ret |-> NoneVal]
     ELSE [err |-> "none", cfg |-> c1,
           ret |-> decay(c["initial_epsilon"], TrueDiv(current_step, S),
                         c["_exp_facto"], r)]

-----------------------------------------------------------------------------
(* default_max_iter_fun *)

RECURSIVE BitLen(_)
BitLen(n) == IF n = 0 THEN 0 ELSE 1 + BitLen(n \div 2)

IsPow2(n) == n = 2 ^ (BitLen(n) - 1)

RECURSIVE PowMod(_, _, _)
PowMod(b, e, m) == IF e = 0 THEN 1 % m ELSE (b * PowMod(b, e - 1, m)) % m

\* binary64 has 53 significant bits.  For d >= 1 not a power of two, the float
\* 1.0 / d is M / 2^E with E = 52 + BitLen(d) and M the integer nearest 2^E / d (no tie can
\* occur).  recip_err(d) = M * d - 2^E, the rounding error of the quotient in
\* units of 1 / (d * 2^E): from rem = 2^E mod d it is d - rem when the quotient
\* was rounded up and -rem when it was rounded down.
recip_err(d) ==
  LET rem == PowMod(2, 52 + BitLen(d), d)
  IN IF 2 * rem > d THEN d - rem ELSE -rem

\* int(nb * x) for an int nb >= 0 and the float x = 1.0 / d, d >= 1, in binary64.
\* The exact product is (nb / d) * (1 + recip_err(d) / 2^E); with k = nb div d,
\* its float is below k only when nb = k * d, k >= 1, the quotient was rounded
\* down and k * |recip_err(d)| / 2^E exceeds half the gap between k and the float
\* before k (2^(e - 52) with e = BitLen(k) - 1, half of that when k is
\* a power of two); a tie rounds to k, whose mantissa is even.  (nb * d < 2^26.)
mul_recip_int(nb, d) ==
  LET k == nb \div d
      rho == recip_err(d)
      L == BitLen(d)
      e == BitLen(k) - 1
      thr == IF IsPow2(k) THEN 2 ^ (L + e - 2) ELSE 2 ^ (L + e - 1)
  IN IF IsPow2(d) \/ nb % d # 0 \/ k = 0 \/ rho > 0 THEN k
     ELSE IF k * (-rho) <= thr THEN k
     ELSE k - 1

\* self.default_max_iter_fun(nb_success): [err, ret], nb_success an int and
\* _1_update_nb_iter the float 1.0 / d of an int d >= 1 (1.0 is 1.0 / 1); int()
\* truncates toward zero, and the product and int() are evaluated before the
\* multiplication by step_increase_nb_iter
default_max_iter_fun(c, nb_success) ==
  LET x == c["_1_update_nb_iter"]
      n == nb_success.v
      q == Sign(n) * mul_recip_int(Abs(n), x.d)
  IN IF IsNone(c["step_increase_nb_iter"]) THEN Raise("TypeError")
     ELSE Ok(IntVal(c["step_increase_nb_iter"].v * q))

-----------------------------------------------------------------------------
(* do_train *)

BoolVal(b) == [t |-> "bool", v |-> b]

\* do_train on the cadence of the tensorboard instead of the training
do_train_tensorboard(c) ==
  IF IsNone(c["last_step"]) \/ IsNone(c["update_tensorboard_freq"])
  THEN Raise("TypeError")
  ELSE IF c["update_tensorboard_freq"].v = 0 THEN Raise("ZeroDivisionError")
  ELSE Ok(BoolVal(PyMod(c["last_step"].v, c["update_tensorboard_freq"].v) = 0))

\* self.do_train(): [err, ret]
do_train(c) ==
  IF IsNone(c["last_step"]) \/ IsNone(c["update_freq"]) THEN Raise("TypeError")
  ELSE IF c["update_freq"].v = 0 THEN Raise("ZeroDivisionError")
  ELSE Ok(BoolVal(PyMod(c["last_step"].v, c["update_freq"].v) = 0))

-----------------------------------------------------------------------------
(* to_dict, from_dict *)

\* a Python dict with string keys: m is the function from its keys to its values
DictVal(m) == [t |-> "dict", m |-> m]

StrVal(s) == [t |-> "str", s |-> s]

\* to_dict that writes every attribute with int()
to_dict_all_int(c) ==
  DictVal([attr_nm \in _int_attr \cup _float_attr |->
             IF IsNone(c[attr_nm]) THEN NoneVal ELSE int(c[attr_nm])])

\* self.to_dict()
to_dict(c) ==
  DictVal([attr_nm \in _int_attr \cup _float_attr |->
             IF IsNone(c[attr_nm]) THEN NoneVal
             ELSE IF attr_nm \in _int_attr THEN int(c[attr_nm])
             ELSE float(c[attr_nm])])

\* TrainingParam.from_dict(tmp): [err, cfg], for a tmp whose values for the keys
\* of the two lists are numbers or None
from_dict(tmp) ==
  IF tmp.t # "dict" THEN [err |-> "RuntimeError", cfg |-> NoneVal]
  ELSE
    LET r0 == TrainingParam(DefaultArgs).cfg
        r1 == [attr_nm \in DOMAIN r0 |->
                 IF attr_nm \in _int_attr /\ attr_nm \in DOMAIN tmp.m
                 THEN (IF ~IsNone(tmp.m[attr_nm]) THEN int(tmp.m[attr_nm]) ELSE NoneVal)
                 ELSE IF attr_nm \in _float_attr /\ attr_nm \in DOMAIN tmp.m
                 THEN (IF ~IsNone(tmp.m[attr_nm]) THEN float(tmp.m[attr_nm]) ELSE NoneVal)
                 ELSE r0[attr_nm]]
        ef == exp_facto(r1)
        r2 == [r1 EXCEPT !["_exp_facto"] = ef.val]
        u == update_nb_iter(r2, r2["update_nb_iter_"])
    IN IF ef.err # "none" THEN [err |-> ef.err, cfg |-> NoneVal]
       ELSE IF u.err # "none" THEN [err |-> u.err, cfg |-> NoneVal]
       ELSE [err |-> "none", cfg |-> u.cfg]

-----------------------------------------------------------------------------
(* the file system, json, from_json, save_as_json *)

\* A path is the sequence of its components; fs maps the paths that exist to
\* their nodes.
DirNode == [kind |-> "dir"]

FileNode(text) == [kind |-> "file", text |-> text]

\* os.path.exists(path)
exists(fs, path) == path \in DOMAIN fs

\* os.path.isdir(path)
isdir(fs, path) == path \in DOMAIN fs /\ fs[path].kind = "dir"

\* os.path.join(path, name)
join(path, name) == Append(path, name)

\* json.dump(obj): the document holding obj (ints, floats and None are written
\* so that json.load reads the same values back)
json_dump(obj) == [t |-> "json", doc |-> obj]

\* json.load(f)
json_load(text) == text.doc

\* TrainingParam.from_json(json_path): [err, cfg]
from_json(fs, json_path) ==
  IF ~exists(fs, json_path) THEN [err |-> "FileNotFoundError", cfg |-> NoneVal]
  ELSE IF fs[json_path].kind = "dir" THEN [err |-> "IsADirectoryError", cfg |-> NoneVal]
  ELSE from_dict(json_load(fs[json_path].text))

\* self.save_as_json(path, name): [err, fs]
save_as_json(c, fs, path, name) ==
  LET d == to_dict(c)
      nm == IF IsNone(name) THEN "training_parameters.json" ELSE name.s
      path_out == join(path, nm)
  IN IF ~exists(fs, path) THEN [err |-> "RuntimeError", fs |-> fs]
     ELSE IF ~isdir(fs, path) THEN [err |-> "NotADirectoryError", fs |-> fs]
     ELSE IF isdir(fs, path_out) THEN [err |-> "IsADirectoryError", fs |-> fs]
     ELSE [err |-> "none",
           fs |-> [p \in DOMAIN fs \cup {path_out} |->
                     IF p = path_out THEN FileNode(json_dump(d)) ELSE fs[p]]]

-----------------------------------------------------------------------------
(* The program: one TrainingParam object (cfg), the last call made (op), what
   it returned (res) or raised (err), and the file system (files). *)

ListVal == [t |-> "list"]

PathVal(p) == [t |-> "path", p |-> p]

Call(name, arg, arg2) == [name |-> name, arg |-> arg, arg2 |-> arg2]

\* a directory, and a file that holds a json array
InitFS ==
  [p \in {<<"dir">>, <<"notdir">>} |->
     IF p = <<"dir">> THEN DirNode ELSE FileNode(json_dump(ListVal))]

\* cfg = TrainingParam(**a), for any a of A that __init__ accepts
Created(A) ==
  /\ \E a \in A : TrainingParam(a).err = "none" /\ cfg = TrainingParam(a).cfg
  /\ op = Call("__init__", NoneVal, NoneVal)
  /\ res = NoneVal
  /\ err = "none"
  /\ files = InitFS

\* cfg.update_nb_iter(n)
UpdateNbIter(n) ==
  LET r == update_nb_iter(cfg, n)
  IN /\ cfg' = r.cfg
     /\ op' = Call("update_nb_iter", n, NoneVal)
     /\ res' = NoneVal
     /\ err' = r.err
     /\ UNCHANGED files

\* cfg.tell_step(s)
TellStep(s) ==
  /\ cfg' = tell_step(cfg, s)
  /\ op' = Call("tell_step", s, NoneVal)
  /\ res' = NoneVal
  /\ err' = "none"
  /\ UNCHANGED files

\* cfg.get_next_epsilon(s); the call just made, made again, returns the same
GetNextEpsilon(s) ==
  \E r \in Roundings :
    LET g == get_next_epsilon(cfg, s, r)
    IN /\ (op.name = "get_next_epsilon" /\ op.arg = s) => (g.ret = res)
       /\ cfg' = g.cfg
       /\ op' = Call("get_next_epsilon", s, NoneVal)
       /\ res' = g.ret
       /\ err' = g.err
       /\ UNCHANGED files

\* cfg.max_iter_fun(nb), the slot holding default_max_iter_fun
DefaultMaxIterFun(nb) ==
  LET r == default_max_iter_fun(cfg, nb)
  IN /\ cfg["max_iter_fun"].name = "default_max_iter_fun"
     /\ op' = Call("default_max_iter_fun", nb, NoneVal)
     /\ res' = r.val
     /\ err' = r.err
     /\ UNCHANGED <<cfg, files>>

\* cfg.do_train()
DoTrain ==
  LET r == do_train(cfg)
  IN /\ op' = Call("do_train", NoneVal, NoneVal)
     /\ res' = r.val
     /\ err' = r.err
     /\ UNCHANGED <<cfg, files>>

\* cfg = TrainingParam.from_dict(tmp); cfg is kept when the call raises
FromDict(tmp) ==
  LET r == from_dict(tmp)
  IN /\ cfg' = IF r.err = "none" THEN r.cfg ELSE cfg
     /\ op' = Call("from_dict", tmp, NoneVal)
     /\ res' = NoneVal
     /\ err' = r.err
     /\ UNCHANGED files

\* cfg = TrainingParam.from_json(p); cfg is kept when the call raises
FromJson(p) ==
  LET r == from_json(files, p)
  IN /\ cfg' = IF r.err = "none" THEN r.cfg ELSE cfg
     /\ op' = Call("from_json", PathVal(p), NoneVal)
     /\ res' = NoneVal
     /\ err' = r.err
     /\ UNCHANGED files

\* cfg.save_as_json(p, name)
SaveAsJson(p, name) ==
  LET r == save_as_json(cfg, files, p, name)
  IN /\ files' = r.fs
     /\ op' = Call("save_as_json", PathVal(p), name)
     /\ res' = NoneVal
     /\ err' = r.err
     /\ UNCHANGED cfg

-----------------------------------------------------------------------------
(* The calls made, and their arguments *)

\* steps run from -2 to MaxStep, and around the default step_for_final_epsilon
MaxStep == 5

\* nb_success runs from 0 to MaxSuccess
MaxSuccess == 50

Steps == {IntVal(s) : s \in ((-2) .. MaxStep) \cup {100000, 100001}}

\* exploration schedules: decreasing, constant, increasing, from 0, from below 0,
\* to 0; over a positive, an empty and a negative number of steps
EpsArgs ==
  {[DefaultArgs EXCEPT !.final_epsilon = f, !.initial_epsilon = i,
                       !.step_for_final_epsilon = S] :
     f \in {FloatVal(1, 2016), FloatVal(1, 20), IntVal(0)},
     i \in {FloatVal(2, 5), FloatVal(1, 2), FloatVal(1, 2016), IntVal(0),
            FloatVal(-1, 2)},
     S \in {IntVal(100000), IntVal(4), IntVal(0), IntVal(-2)}}

\* training cadences
FreqArgs == {[DefaultArgs EXCEPT !.update_freq = u] : u \in {IntVal(2), IntVal(3)}}

EmptyDict == DictVal([k \in {} |-> NoneVal])

EpsDicts ==
  {EmptyDict,
   DictVal("final_epsilon" :> NoneVal),
   DictVal("initial_epsilon" :> NoneVal),
   DictVal(("initial_epsilon" :> NoneVal) @@ ("final_epsilon" :> IntVal(0))),
   DictVal("step_for_final_epsilon" :> NoneVal),
   DictVal(("step_for_final_epsilon" :> FloatVal(5, 2)) @@
           ("final_epsilon" :> FloatVal(1, 8)) @@ ("initial_epsilon" :> IntVal(1)) @@
           ("update_nb_iter_" :> IntVal(4)) @@ ("last_step" :> FloatVal(7, 2)) @@
           ("update_freq" :> IntVal(2)))}

Init == Created(EpsArgs \cup FreqArgs)

Next ==
  \/ \E n \in {IntVal(0), IntVal(3)} : UpdateNbIter(n)
  \/ \E s \in Steps : TellStep(s)
  \/ \E s \in Steps : GetNextEpsilon(s)
  \/ DoTrain
  \/ \E tmp \in EpsDicts : FromDict(tmp)

Spec == Init /\ [][Next]_vars

\* episode-length schedules
NbIters == {IntVal(-1), IntVal(0), IntVal(1), IntVal(3), IntVal(10), IntVal(49)}

IterArgs ==
  {[DefaultArgs EXCEPT !.update_nb_iter = n, !.step_increase_nb_iter = k] :
     n \in NbIters, k \in {NoneVal, IntVal(0), IntVal(1), IntVal(5)}}

IterDicts ==
  {DictVal("step_increase_nb_iter" :> NoneVal),
   DictVal("update_nb_iter_" :> NoneVal),
   DictVal(("update_nb_iter_" :> IntVal(49)) @@ ("step_increase_nb_iter" :> IntVal(2)))}

InitIter == Created(IterArgs)

NextIter ==
  \/ \E n \in NbIters : UpdateNbIter(n)
  \/ \E nb \in 0 .. MaxSuccess : DefaultMaxIterFun(IntVal(nb))
  \/ \E tmp \in IterDicts : FromDict(tmp)

SpecIter == InitIter /\ [][NextIter]_vars

\* saving and loading
IOArgs ==
  {DefaultArgs,
   [DefaultArgs EXCEPT !.update_nb_iter = IntVal(3), !.oversampling_rate = IntVal(2),
                       !.update_freq = NoneVal, !.step_increase_nb_iter = NoneVal]}

IODicts ==
  {ListVal, NoneVal, EmptyDict,
   DictVal("final_epsilon" :> NoneVal),
   DictVal(("foo" :> IntVal(1)) @@ ("oversampling_rate" :> FloatVal(1, 2)) @@
           ("max_loss" :> NoneVal) @@ ("last_step" :> IntVal(2)) @@
           ("step_increase_nb_iter" :> NoneVal) @@ ("lr" :> IntVal(1)))}

SavePaths == {<<"dir">>, <<"notdir">>, <<"missing">>}

SaveNames == {NoneVal, StrVal("custom.json")}

LoadPaths ==
  SavePaths \cup {<<"dir", "training_parameters.json">>, <<"dir", "custom.json">>}

InitIO == Created(IOArgs)

NextIO ==
  \/ UpdateNbIter(IntVal(7))
  \/ TellStep(IntVal(MaxStep))
  \/ GetNextEpsilon(IntVal(MaxStep))
  \/ \E tmp \in IODicts : FromDict(tmp)
  \/ \E p \in LoadPaths : FromJson(p)
  \/ \E p \in SavePaths, name \in SaveNames : SaveAsJson(p, name)

SpecIO == InitIO /\ [][NextIO]_vars

-----------------------------------------------------------------------------
(* The claims *)

IsCall(name) == op.name = name

\* the exact value of v is the number x: v is that float, or the rounding of it
ExactEq(v, x) ==
  \/ IsNumber(v) /\ PyEq(v, x)
  \/ /\ v.t = "float" /\ v.k = "pow"
     /\ v.e = FloatVal(-1, 1)
     /\ PyEq(TrueDiv(v.c, v.q), x)

\* the exponent e of a value c * q^e of the curve, None for any other value
Expo(v, c, q) ==
  IF v.t = "float" /\ v.k = "pow" THEN v.e
  ELSE IF PyEq(v, c) THEN FloatVal(0, 1)
  ELSE IF PyEq(v, TrueDiv(c, q)) THEN FloatVal(-1, 1)
  ELSE NoneVal

Dev(v) == IF v.t = "float" /\ v.k = "pow" THEN v.r ELSE 0

\* a >= b for two values of the curve c * q^e, q >= 1
GeqOnCurve(a, b, c, q) ==
  LET ea == Expo(a, c, q)
      eb == Expo(b, c, q)
  IN /\ ~IsNone(ea) /\ ~IsNone(eb)
     /\ \/ PyGt(ea, eb)
        \/ PyEq(ea, eb) /\ Dev(a) >= Dev(b)

\* C1: after construction and any calls of update_nb_iter, from_dict, tell_step
\* and get_next_epsilon, _1_update_nb_iter is 1 / update_nb_iter_ when
\* update_nb_iter_ > 0 and 1.0 otherwise, and _exp_facto is
\* ln(initial_epsilon / final_epsilon) when final_epsilon > 0 and 1 otherwise.
C1_DerivedAgree ==
  /\ cfg["_1_update_nb_iter"] =
       (IF Num(cfg["update_nb_iter_"]) > 0
        THEN FloatVal(Den(cfg["update_nb_iter_"]), Num(cfg["update_nb_iter_"]))
        ELSE FloatVal(1, 1))
  /\ cfg["_exp_facto"] =
       (IF Num(cfg["final_epsilon"]) > 0
        THEN np_log(TrueDiv(cfg["initial_epsilon"], cfg["final_epsilon"]))
        ELSE IntVal(1))

\* update_nb_iter(3) on an object loaded by from_dict and stepped to 5
C1_Witness ==
  /\ IsCall("update_nb_iter")
  /\ cfg["update_nb_iter_"] = IntVal(3)
  /\ cfg["final_epsilon"] = FloatVal(1, 8)
  /\ cfg["last_step"] = IntVal(5)
  /\ cfg["_exp_facto"] = LnVal(8, 1)

\* C2: for every current_step > step_for_final_epsilon, get_next_epsilon returns
\* exactly final_epsilon and records current_step as last_step.
C2_FinalBranch ==
  (/\ IsCall("get_next_epsilon")
   /\ ~IsNone(cfg["step_for_final_epsilon"])
   /\ PyGt(op.arg, cfg["step_for_final_epsilon"]))
  => /\ err = "none"
     /\ res = cfg["final_epsilon"]
     /\ cfg["last_step"] = op.arg

\* get_next_epsilon(5) with step_for_final_epsilon = 4 on a decreasing schedule
C2_Witness ==
  /\ IsCall("get_next_epsilon")
  /\ op.arg = IntVal(5)
  /\ PyEq(cfg["step_for_final_epsilon"], IntVal(4))
  /\ cfg["initial_epsilon"] = FloatVal(1, 2)
  /\ res = FloatVal(1, 20)

\* C3, as amended: get_next_epsilon(0) returns initial_epsilon when
\* step_for_final_epsilon > 0, initial_epsilon is a number and _exp_facto is
\* finite (final_epsilon <= 0 or initial_epsilon > 0); it returns final_epsilon
\* when step_for_final_epsilon < 0 and raises ZeroDivisionError when
\* step_for_final_epsilon = 0.
C3_AtZero ==
  (/\ IsCall("get_next_epsilon")
   /\ op.arg = IntVal(0)
   /\ ~IsNone(cfg["step_for_final_epsilon"]))
  => /\ (/\ Num(cfg["step_for_final_epsilon"]) > 0
         /\ ~IsNone(cfg["initial_epsilon"])
         /\ (Num(cfg["final_epsilon"]) <= 0 \/ Num(cfg["initial_epsilon"]) > 0))
        => (err = "none" /\ PyEq(res, cfg["initial_epsilon"]))
     /\ Num(cfg["step_for_final_epsilon"]) < 0
        => (err = "none" /\ res = cfg["final_epsilon"])
     /\ Num(cfg["step_for_final_epsilon"]) = 0 => err = "ZeroDivisionError"

\* get_next_epsilon(0) on a decreasing schedule over 4 steps
C3_Witness ==
  /\ IsCall("get_next_epsilon")
  /\ op.arg = IntVal(0)
  /\ PyEq(cfg["step_for_final_epsilon"], IntVal(4))
  /\ cfg["_exp_facto"] = LnVal(10, 1)
  /\ res = FloatVal(1, 2)

\* C3, as claimed: get_next_epsilon(0) returns initial_epsilon whatever
\* step_for_final_epsilon is, 0 and negative values included.
C3_Original ==
  (IsCall("get_next_epsilon") /\ op.arg = IntVal(0))
  => (err = "none" /\ PyEq(res, cfg["initial_epsilon"]))

\* initial_epsilon >= final_epsilon > 0
Decreasing ==
  /\ ~IsNone(cfg["initial_epsilon"])
  /\ ~IsNone(cfg["step_for_final_epsilon"])
  /\ Num(cfg["final_epsilon"]) > 0
  /\ ~PyGt(cfg["final_epsilon"], cfg["initial_epsilon"])

\* two calls of get_next_epsilon in a row, at steps s1 <= s2 of
\* [0, step_for_final_epsilon], return values r1 >= r2
C4_MonotoneStep ==
  (/\ IsCall("get_next_epsilon")
   /\ op'.name = "get_next_epsilon"
   /\ Decreasing
   /\ 0 <= op.arg.v /\ op.arg.v <= op'.arg.v
   /\ ~PyGt(op'.arg, cfg["step_for_final_epsilon"]))
  => /\ err = "none" /\ err' = "none"
     /\ GeqOnCurve(res, res', cfg["initial_epsilon"],
                   TrueDiv(cfg["initial_epsilon"], cfg["final_epsilon"]))

C4_BoundaryRounded ==
  (/\ IsCall("get_next_epsilon")
   /\ Decreasing
   /\ Num(cfg["step_for_final_epsilon"]) > 0
   /\ PyEq(op.arg, cfg["step_for_final_epsilon"]))
  => (err = "none" /\ ExactEq(res, cfg["final_epsilon"]))

C4_BoundaryExact ==
  (/\ IsCall("get_next_epsilon")
   /\ Decreasing
   /\ Num(cfg["step_for_final_epsilon"]) >= 0
   /\ PyEq(op.arg, cfg["step_for_final_epsilon"]))
  => (err = "none" /\ PyEq(res, cfg["final_epsilon"]))

\* C4, as amended: given initial_epsilon >= final_epsilon > 0 and
\* step_for_final_epsilon > 0, get_next_epsilon is non-increasing over
\* [0, step_for_final_epsilon], and its value at step_for_final_epsilon is
\* final_epsilon up to the rounding of the log/exp chain (its exact value is
\* final_epsilon).
C4_Monotone == [] C4_BoundaryRounded /\ [][C4_MonotoneStep]_vars

\* get_next_epsilon(4) over 4 steps, rounded below final_epsilon
C4_Witness ==
  /\ IsCall("get_next_epsilon")
  /\ Decreasing
  /\ op.arg = IntVal(4)
  /\ PyEq(cfg["step_for_final_epsilon"], IntVal(4))
  /\ cfg["initial_epsilon"] = FloatVal(2, 5)
  /\ res.k = "pow" /\ res.r = -1
  /\ ExactEq(res, cfg["final_epsilon"])

\* C4, as claimed: given initial_epsilon >= final_epsilon > 0, get_next_epsilon
\* is non-increasing over [0, step_for_final_epsilon] and its value at
\* step_for_final_epsilon equals final_epsilon.
C4_Original == [] C4_BoundaryExact /\ [][C4_MonotoneStep]_vars

\* C5: for update_nb_iter_ > 0 and nb_success >= 0, default_max_iter_fun returns
\* step_increase_nb_iter * floor(nb_success / update_nb_iter_), with the
\* update_nb_iter_ in force (so it grows by step_increase_nb_iter at every
\* multiple of update_nb_iter_, and is 0 when step_increase_nb_iter is 0).
C5_Claim ==
  (/\ IsCall("default_max_iter_fun")
   /\ ~IsNone(cfg["update_nb_iter_"])
   /\ ~IsNone(cfg["step_increase_nb_iter"])
   /\ cfg["update_nb_iter_"].v > 0
   /\ op.arg.v >= 0)
  => /\ err = "none"
     /\ res = IntVal(cfg["step_increase_nb_iter"].v *
                     (op.arg.v \div cfg["update_nb_iter_"].v))

\* the last_step and the cadence are ints, the cadence positive
CadenceDefined ==
  /\ ~IsNone(cfg["last_step"])
  /\ ~IsNone(cfg["update_freq"])
  /\ cfg["update_freq"].v > 0

\* the answer of do_train and the step the calls record
C6_State ==
  /\ (IsCall("do_train") /\ CadenceDefined)
     => /\ err = "none"
        /\ res = BoolVal(cfg["last_step"].v % cfg["update_freq"].v = 0)
  /\ IsCall("__init__") => cfg["last_step"] = IntVal(0)
  /\ (IsCall("tell_step") \/ IsCall("get_next_epsilon")) => cfg["last_step"] = op.arg

\* do_train changes no field; update_nb_iter keeps last_step
C6_Step ==
  /\ op'.name = "do_train" => cfg' = cfg
  /\ op'.name = "update_nb_iter" => cfg'["last_step"] = cfg["last_step"]

\* C6: do_train() returns true exactly when s mod update_freq = 0, s the argument
\* of the latest tell_step or get_next_epsilon call, 0 on a fresh object; do_train
\* changes no field.
C6_Cadence == [] C6_State /\ [][C6_Step]_vars

\* do_train() is true at step 3 with update_freq = 3
C6_Witness ==
  /\ IsCall("do_train")
  /\ cfg["update_freq"] = IntVal(3)
  /\ cfg["last_step"] = IntVal(3)
  /\ res = BoolVal(TRUE)

\* C7: from_dict(to_dict(cfg)) holds, for every attribute of _int_attr and
\* _float_attr, the value cfg holds (None where cfg holds None), and the same
\* _exp_facto and _1_update_nb_iter.
C7_RoundTrip ==
  LET r == from_dict(to_dict(cfg))
  IN /\ r.err = "none"
     /\ \A attr_nm \in _int_attr \cup _float_attr :
          IF IsNone(cfg[attr_nm]) THEN IsNone(r.cfg[attr_nm])
          ELSE PyEq(r.cfg[attr_nm], cfg[attr_nm])
     /\ r.cfg["_exp_facto"] = cfg["_exp_facto"]
     /\ r.cfg["_1_update_nb_iter"] = cfg["_1_update_nb_iter"]

\* an object with None fields, stepped to MaxStep, set to update_nb_iter_ = 7,
\* saved and loaded
C7_Witness ==
  /\ IsCall("from_json")
  /\ err = "none"
  /\ cfg["last_step"] = IntVal(MaxStep)
  /\ cfg["update_nb_iter_"] = IntVal(7)
  /\ cfg["_1_update_nb_iter"] = FloatVal(1, 7)
  /\ IsNone(cfg["update_freq"])
  /\ cfg["oversampling_rate"] = FloatVal(2, 1)

\* the file name save_as_json writes
SavedName == IF IsNone(op'.arg2) THEN "training_parameters.json" ELSE op'.arg2.s

\* one save_as_json step, as C8 states it
C8_SaveStep ==
  op'.name = "save_as_json" =>
    /\ op'.arg.p \notin DOMAIN files
       => /\ err' = from_json(files, op'.arg.p).err
          /\ files' = files /\ cfg' = cfg
    /\ (op'.arg.p \in DOMAIN files /\ files[op'.arg.p].kind # "dir")
       => /\ err' = "NotADirectoryError"
          /\ files' = files /\ cfg' = cfg
    /\ (op'.arg.p \in DOMAIN files /\ files[op'.arg.p].kind = "dir")
       => /\ err' = "none"
          /\ cfg' = cfg
          /\ DOMAIN files' = DOMAIN files \cup {Append(op'.arg.p, SavedName)}
          /\ files'[Append(op'.arg.p, SavedName)] = FileNode(json_dump(to_dict(cfg)))
          /\ \A q \in DOMAIN files : q # Append(op'.arg.p, SavedName) => files'[q] = files[q]

\* C8: save_as_json(path, name) raises what from_json raises for a missing path
\* when path does not exist, NotADirectoryError when path is not a directory, in
\* both cases writing nothing and changing no field; otherwise it writes
\* to_dict() to path/name, name defaulting to training_parameters.json.
C8_Claim == [][C8_SaveStep]_vars

\* C9: from_dict raises RuntimeError for every input that is not a dict and
\* from_json FileNotFoundError for a path that does not exist; for every dict
\* whose values are numbers or None, from_dict returns an object: absent keys
\* keep the defaults of __init__, other keys are ignored, None is stored as None.
C9_Claim ==
  /\ IsCall("from_dict") =>
       IF op.arg.t # "dict" THEN err = "RuntimeError"
       ELSE /\ err = "none"
            /\ DOMAIN cfg = DOMAIN TrainingParam(DefaultArgs).cfg
            /\ \A attr_nm \in _int_attr \cup _float_attr :
                 IF attr_nm \notin DOMAIN op.arg.m
                 THEN cfg[attr_nm] = TrainingParam(DefaultArgs).cfg[attr_nm]
                 ELSE IF IsNone(op.arg.m[attr_nm]) THEN IsNone(cfg[attr_nm])
                 ELSE ~IsNone(cfg[attr_nm])
  /\ (IsCall("from_json") /\ op.arg.p \notin DOMAIN files) => err = "FileNotFoundError"

\* C10: step_increase_nb_iter is never stored as None, by __init__ or by
\* from_dict, and default_max_iter_fun returns (0 when it is 0) instead of
\* raising.
C10_Claim ==
  /\ ~IsNone(cfg["step_increase_nb_iter"])
  /\ IsCall("default_max_iter_fun") =>
       /\ err = "none"
       /\ cfg["step_increase_nb_iter"] = IntVal(0) => res = IntVal(0)

====
